---- MODULE Spec2Model ----
(***************************************************************************)
(* Model of the hashing layer of the Jellyfish primitives crate:           *)
(*   - SWHashToGroup::hash_to_group  (hash_to_group/short_weierstrass.rs)  *)
(*   - the DigestAlgorithm instances RescueHash (field element leaves and  *)
(*     Interval leaves) and Sha3Digest  (merkle_tree/examples.rs)          *)
(* Caller threads invoke these operations; every statement of a call is    *)
(* one step, and the steps of different threads interleave freely.         *)
(*                                                                         *)
(* Scaling.  Byte strings are strings over ByteBits-bit bytes, positions   *)
(* are PosBits-bit unsigned integers, the Rescue field is the prime field  *)
(* of FModulus elements (FModulus > 2^PosBits, as every RescueParameter    *)
(* field is larger than 2^64), the curve is y^2 = x^3 + CoeffA*x + CoeffB  *)
(* over the prime field of BaseModulus elements, of order                  *)
(* Cofactor * (prime subgroup order).                                      *)
(*                                                                         *)
(* Idealisations.  SHA-256, SHA3-256 and the Rescue sponge are modelled as *)
(* collision free: each returns an injective encoding of what it absorbed. *)
(* ChaCha20 is a fixed deterministic function of (seed, word index).  A    *)
(* draw of a field element and a draw of a bool each consume one word.     *)
(***************************************************************************)
EXTENDS Integers, Sequences, FiniteSets, TLC

\* ------------------------------------------------------------- bounds
\* Longest message and longest context, in bytes.
MaxLen == 1
\* Most iterations of the rejection-sampling loop a call is followed for.
MaxIter == 3

\* ------------------------------------------------- scaled program constants
\* Width of a byte of the inputs (u8).
ByteBits == 1
\* Width of a position (u64).
PosBits == 2
\* Modulus of the field F of RescueHash<F>.
FModulus == 5
\* Rate of the sponge and arity of the trees (U3).
Arity == 3
\* Width of a Sha3Node ([u8; 32]).
NodeBits == 1
\* Modulus of Self::BaseField, and the curve y^2 = x^3 + CoeffA*x + CoeffB.
BaseModulus == 11
CoeffA == 0
CoeffB == 1
\* Self::COFACTOR: the curve has 12 points, the prime subgroup has 3.
Cofactor == 4
\* Number of values of one word of the generator's stream.
WordModulus == 88

RECURSIVE Pow2(_)
Pow2(n) == IF n = 0 THEN 1 ELSE 2 * Pow2(n - 1)

Threads == {"t1", "t2"}

Bytes == 0..(Pow2(ByteBits) - 1)
Positions == 0..(Pow2(PosBits) - 1)
F == 0..(FModulus - 1)
BaseField == 0..(BaseModulus - 1)
Sha3Nodes == 0..(Pow2(NodeBits) - 1)

SeqsUpTo(S, n) == UNION {[1..k -> S] : k \in 0..n}
ByteStrings == SeqsUpTo(Bytes, MaxLen)

\* ------------------------------------------------------ hash primitives
\* An injective encoding of a sequence over 0..(base-1) as a natural number
\* (bijective numeration): what a collision-free hash keeps of its input.
RECURSIVE Encode(_, _)
Encode(s, base) ==
    IF s = <<>> THEN 0 ELSE (Head(s) + 1) + base * Encode(Tail(s), base)

\* Sha256::new(), update(bytes), finalize(): the 32-byte seed.
Sha256(bytes) == Encode(bytes, Pow2(ByteBits))

\* Sha3_256 over the absorbed node bytes; the result is a Sha3Node.
Sha3_256(nodes) == Pow2(NodeBits) + Encode(nodes, Pow2(NodeBits))

\* Sha3Node::default(): the all-zero node.
Sha3NodeDefault == 0

\* Permutation::default().sponge_no_padding(data, 1)[0]: collision free on
\* rate-sized inputs; the digest is a field element outside the small range
\* the inputs are drawn from.
Sponge(data) == FModulus + Encode(data, FModulus)

\* Mutant: the position is narrowed by one bit before it is encoded.
FieldFromU64Truncating(pos) == (pos % Pow2(PosBits - 1)) % FModulus

\* F::from(u64): the position reduced into the field.
FieldFromU64(pos) == (pos % Pow2(PosBits)) % FModulus

\* ---------------------------------------------------- generator stream
\* ChaCha20Rng::from_seed(seed): the k-th word of the stream of a seed.
ChaChaWord(seed, k) ==
    (3 * seed * seed + 5 * seed * k + 6 * k * k + 2 * seed + 29 * k + 7)
        % WordModulus

FromSeed(seed) == [seed |-> seed, pos |-> 0]
NoRng == [seed |-> -1, pos |-> 0]

\* Self::BaseField::rand(&mut rng): the field element of the next word.
BaseFieldRand(g) == ChaChaWord(g.seed, g.pos) % BaseModulus
\* rng.gen::<bool>(): the bool of the next word.
GenBool(g) == (ChaChaWord(g.seed, g.pos) \div BaseModulus) % 2 = 1
\* The generator after one draw.
Advance(g) == [g EXCEPT !.pos = g.pos + 1]

\* ------------------------------------------------------ curve arithmetic
FNeg(a) == (BaseModulus - a) % BaseModulus
FInv(a) == CHOOSE b \in 1..(BaseModulus - 1) : (a * b) % BaseModulus = 1

Zero == [inf |-> TRUE, x |-> 0, y |-> 1]
Affine(px, py) == [inf |-> FALSE, x |-> px, y |-> py]
NoPoint == [some |-> FALSE, p |-> Zero]
SomePoint(p) == [some |-> TRUE, p |-> p]

\* x^3 + a*x + b
CurveRhs(px) == (px * px * px + CoeffA * px + CoeffB) % BaseModulus
IsSquare(a) == \E r \in BaseField : (r * r) % BaseModulus = a
\* Field::sqrt: one of the two roots.
Sqrt(a) == CHOOSE r \in BaseField : (r * r) % BaseModulus = a

\* GroupAffine::get_point_from_x(x, greatest)
GetPointFromX(px, greatest) ==
    IF ~IsSquare(CurveRhs(px)) THEN NoPoint
    ELSE LET r == Sqrt(CurveRhs(px))
             negy == FNeg(r)
             py == IF (r < negy) # greatest THEN r ELSE negy
         IN  SomePoint(Affine(px, py))

PointAdd(p1, p2) ==
    IF p1.inf THEN p2
    ELSE IF p2.inf THEN p1
    ELSE IF p1.x = p2.x /\ (p1.y + p2.y) % BaseModulus = 0 THEN Zero
    ELSE LET num == IF p1.x = p2.x
                    THEN (3 * p1.x * p1.x + CoeffA) % BaseModulus
                    ELSE (p2.y + FNeg(p1.y)) % BaseModulus
             den == IF p1.x = p2.x
                    THEN (2 * p1.y) % BaseModulus
                    ELSE (p2.x + FNeg(p1.x)) % BaseModulus
             l == (num * FInv(den)) % BaseModulus
             rx == (l * l + FNeg(p1.x) + FNeg(p2.x)) % BaseModulus
             ry == (l * (p1.x + FNeg(rx)) + FNeg(p1.y)) % BaseModulus
         IN  Affine(rx, ry)

RECURSIVE ScalarMul(_, _)
ScalarMul(k, p) ==
    IF k = 0 THEN Zero
    ELSE LET h == ScalarMul(k \div 2, p)
             d == PointAdd(h, h)
         IN  IF k % 2 = 1 THEN PointAdd(d, p) ELSE d

\* The points of the curve, and the cofactor multiple of each (a table, so
\* that a step looks the multiple up).
CurvePoints ==
    {Zero} \cup {Affine(px, py) : <<px, py>> \in
                    {q \in BaseField \X BaseField :
                        (q[2] * q[2]) % BaseModulus = CurveRhs(q[1])}}
CofactorMultiple == [p \in CurvePoints |-> ScalarMul(Cofactor, p)]

\* p.mul_by_cofactor_to_projective()
MulByCofactor(p) == CofactorMultiple[p]

\* ------------------------------------------------------------- state
VARIABLES
    pc,       \* per thread: the statement the thread's call is at
    op,       \* per thread: the operation being called
    args,     \* per thread: the arguments of the call
    hasher,   \* per thread: what the call's own hasher has absorbed
    rng,      \* per thread: the call's own generator
    x,        \* per thread: the candidate x of the current iteration
    y_flag,   \* per thread: the sign flag of the current iteration
    draws,    \* per thread: the draws the call made from its generator
    result    \* per thread: what the call returned

vars == <<pc, op, args, hasher, rng, x, y_flag, draws, result>>

NoArgs == [data |-> <<>>, cs_id |-> <<>>, children |-> <<>>, pos |-> 0,
           elem |-> <<>>]
NoResult == [tag |-> "none", point |-> Zero, value |-> 0]
\* Ok(GroupProjective), Err(PrimitivesError), a returned node, a panic.
Ok(p) == [tag |-> "Ok", point |-> p, value |-> 0]
Err == [tag |-> "Err", point |-> Zero, value |-> 0]
Value(v) == [tag |-> "value", point |-> Zero, value |-> v]
Panic == [tag |-> "panic", point |-> Zero, value |-> 0]

DrawnX(v) == [kind |-> "x", val |-> v]
DrawnFlag(b) == [kind |-> "flag", val |-> IF b THEN 1 ELSE 0]

Init ==
    /\ pc = [t \in Threads |-> "idle"]
    /\ op = [t \in Threads |-> "none"]
    /\ args = [t \in Threads |-> NoArgs]
    /\ hasher = [t \in Threads |-> <<>>]
    /\ rng = [t \in Threads |-> NoRng]
    /\ x = [t \in Threads |-> 0]
    /\ y_flag = [t \in Threads |-> FALSE]
    /\ draws = [t \in Threads |-> <<>>]
    /\ result = [t \in Threads |-> NoResult]

\* A thread starts a call: its locals are fresh.
Enter(t, name, a, at) ==
    /\ pc[t] = "idle"
    /\ pc' = [pc EXCEPT ![t] = at]
    /\ op' = [op EXCEPT ![t] = name]
    /\ args' = [args EXCEPT ![t] = a]
    /\ UNCHANGED <<hasher, rng, x, y_flag, draws, result>>

\* ------------------------------------------------------- hash_to_group
CallHashToGroup(t) ==
    \E data \in ByteStrings, cs_id \in ByteStrings :
        Enter(t, "hash_to_group",
              [NoArgs EXCEPT !.data = data, !.cs_id = cs_id], "h2g_update")

\* let mut hasher = Sha256::new();
\* hasher.update([cs_id.as_ref(), data.as_ref()].concat());
HasherUpdate(t) ==
    /\ pc[t] = "h2g_update"
    /\ hasher' = [hasher EXCEPT ![t] = args[t].cs_id \o args[t].data]
    /\ pc' = [pc EXCEPT ![t] = "h2g_seed"]
    /\ UNCHANGED <<op, args, rng, x, y_flag, draws, result>>

\* Mutant: the generator is seeded from entropy, not from the hash.
SeedRngFromEntropy(t) ==
    /\ pc[t] = "h2g_seed"
    /\ \E seed \in {Sha256(b) : b \in ByteStrings} :
           rng' = [rng EXCEPT ![t] = FromSeed(seed)]
    /\ pc' = [pc EXCEPT ![t] = "h2g_rand_x"]
    /\ UNCHANGED <<op, args, hasher, x, y_flag, draws, result>>

\* seed.copy_from_slice(hasher.finalize().as_ref());
\* let mut rng = ChaCha20Rng::from_seed(seed);
SeedRng(t) ==
    /\ pc[t] = "h2g_seed"
    /\ rng' = [rng EXCEPT ![t] = FromSeed(Sha256(hasher[t]))]
    /\ pc' = [pc EXCEPT ![t] = "h2g_rand_x"]
    /\ UNCHANGED <<op, args, hasher, x, y_flag, draws, result>>

\* Mutant: one generator shared by all calls (the one thread t1 seeded).
DrawXShared(t) ==
    /\ pc[t] = "h2g_rand_x"
    /\ rng[t].pos < 2 * MaxIter
    /\ rng["t1"].pos < 2 * MaxIter
    /\ rng["t1"].seed >= 0
    /\ x' = [x EXCEPT ![t] = BaseFieldRand(rng["t1"])]
    /\ draws' = [draws EXCEPT
                   ![t] = Append(@, DrawnX(BaseFieldRand(rng["t1"])))]
    /\ rng' = [rng EXCEPT !["t1"] = Advance(@)]
    /\ pc' = [pc EXCEPT ![t] = "h2g_gen_flag"]
    /\ UNCHANGED <<op, args, hasher, y_flag, result>>

\* loop { let x = Self::BaseField::rand(&mut rng);
DrawX(t) ==
    /\ pc[t] = "h2g_rand_x"
    /\ rng[t].pos < 2 * MaxIter
    /\ x' = [x EXCEPT ![t] = BaseFieldRand(rng[t])]
    /\ draws' = [draws EXCEPT ![t] = Append(@, DrawnX(BaseFieldRand(rng[t])))]
    /\ rng' = [rng EXCEPT ![t] = Advance(@)]
    /\ pc' = [pc EXCEPT ![t] = "h2g_gen_flag"]
    /\ UNCHANGED <<op, args, hasher, y_flag, result>>

\* let y_flag = rng.gen();
DrawFlag(t) ==
    /\ pc[t] = "h2g_gen_flag"
    /\ y_flag' = [y_flag EXCEPT ![t] = GenBool(rng[t])]
    /\ draws' = [draws EXCEPT ![t] = Append(@, DrawnFlag(GenBool(rng[t])))]
    /\ rng' = [rng EXCEPT ![t] = Advance(@)]
    /\ pc' = [pc EXCEPT ![t] = "h2g_recover"]
    /\ UNCHANGED <<op, args, hasher, x, result>>

\* Mutant: a failed recovery is returned as an error.
RecoverOrErr(t) ==
    /\ pc[t] = "h2g_recover"
    /\ LET got == GetPointFromX(x[t], y_flag[t])
       IN  result' = [result EXCEPT
                        ![t] = IF got.some THEN Ok(MulByCofactor(got.p))
                               ELSE Err]
    /\ pc' = [pc EXCEPT ![t] = "done"]
    /\ UNCHANGED <<op, args, hasher, rng, x, y_flag, draws>>

\* Mutant: the recovered point is returned without clearing the cofactor.
RecoverNoCofactor(t) ==
    /\ pc[t] = "h2g_recover"
    /\ LET got == GetPointFromX(x[t], y_flag[t])
       IN  IF got.some
           THEN /\ result' = [result EXCEPT ![t] = Ok(got.p)]
                /\ pc' = [pc EXCEPT ![t] = "done"]
           ELSE /\ result' = result
                /\ pc' = [pc EXCEPT ![t] = "h2g_rand_x"]
    /\ UNCHANGED <<op, args, hasher, rng, x, y_flag, draws>>

\* Mutant: the return is missing, so the loop goes on after a successful
\* recovery.
RecoverWithoutReturn(t) ==
    /\ pc[t] = "h2g_recover"
    /\ pc' = [pc EXCEPT ![t] = "h2g_rand_x"]
    /\ UNCHANGED <<op, args, hasher, rng, x, y_flag, draws, result>>

\* if let Some(p) = GroupAffine::<Self>::get_point_from_x(x, y_flag) {
\*     return Ok(p.mul_by_cofactor_to_projective()); } }
Recover(t) ==
    /\ pc[t] = "h2g_recover"
    /\ LET got == GetPointFromX(x[t], y_flag[t])
       IN  IF got.some
           THEN /\ result' = [result EXCEPT ![t] = Ok(MulByCofactor(got.p))]
                /\ pc' = [pc EXCEPT ![t] = "done"]
           ELSE /\ result' = result
                /\ pc' = [pc EXCEPT ![t] = "h2g_rand_x"]
    /\ UNCHANGED <<op, args, hasher, rng, x, y_flag, draws>>

\* ------------------------------------------------------------ RescueHash
CallRescueDigest(t) ==
    \E children \in [1..Arity -> F] :
        Enter(t, "RescueHash::digest",
              [NoArgs EXCEPT !.children = children], "rescue_digest")

CallRescueDigestLeaf(t) ==
    \E pos \in Positions, elem \in F :
        Enter(t, "RescueHash::digest_leaf",
              [NoArgs EXCEPT !.pos = pos, !.elem = <<elem>>], "rescue_leaf")

CallIntervalDigestLeaf(t) ==
    \E pos \in Positions, low \in F, high \in F :
        Enter(t, "RescueHash::digest_leaf(Interval)",
              [NoArgs EXCEPT !.pos = pos, !.elem = <<low, high>>],
              "interval_leaf")

\* fn digest(data: &[F]) -> F
RescueDigestOf(data) == Sponge(data)
\* fn digest_leaf(pos: &u64, elem: &F) -> F
RescueDigestLeafOf(pos, elem) == Sponge(<<FieldFromU64(pos), elem, 0>>)
\* fn digest_leaf(pos: &u64, elem: &Interval<F>) -> F
IntervalDigestLeafOf(pos, elem) ==
    Sponge(<<FieldFromU64(pos), elem[1], elem[2]>>)

Finish(t, r) ==
    /\ result' = [result EXCEPT ![t] = r]
    /\ pc' = [pc EXCEPT ![t] = "done"]
    /\ UNCHANGED <<op, args, hasher, rng, x, y_flag, draws>>

RescueDigest(t) ==
    /\ pc[t] = "rescue_digest"
    /\ Finish(t, Value(RescueDigestOf(args[t].children)))

RescueDigestLeaf(t) ==
    /\ pc[t] = "rescue_leaf"
    /\ Finish(t, Value(RescueDigestLeafOf(args[t].pos, args[t].elem[1])))

IntervalDigestLeaf(t) ==
    /\ pc[t] = "interval_leaf"
    /\ Finish(t, Value(IntervalDigestLeafOf(args[t].pos, args[t].elem)))

\* ------------------------------------------------------------ Sha3Digest
CallSha3Digest(t) ==
    \E children \in [1..Arity -> Sha3Nodes] :
        Enter(t, "Sha3Digest::digest",
              [NoArgs EXCEPT !.children = children], "sha3_update")

CallSha3DigestLeaf(t) ==
    \E pos \in Positions, elem \in Bytes :
        Enter(t, "Sha3Digest::digest_leaf",
              [NoArgs EXCEPT !.pos = pos, !.elem = <<elem>>], "sha3_leaf")

\* let mut hasher = Sha3_256::new();
\* for value in data { hasher.update(value); }
Sha3Update(t) ==
    /\ pc[t] = "sha3_update"
    /\ Len(hasher[t]) < Len(args[t].children)
    /\ hasher' = [hasher EXCEPT
                    ![t] = Append(@, args[t].children[Len(@) + 1])]
    /\ UNCHANGED <<pc, op, args, rng, x, y_flag, draws, result>>

\* Sha3Node(hasher.finalize().into())
Sha3Finalize(t) ==
    /\ pc[t] = "sha3_update"
    /\ Len(hasher[t]) = Len(args[t].children)
    /\ Finish(t, Value(Sha3_256(hasher[t])))

\* Mutant: the unfinished leaf digest returns the default node.
Sha3DigestLeafDefault(t) ==
    /\ pc[t] = "sha3_leaf"
    /\ Finish(t, Value(Sha3NodeDefault))

\* fn digest_leaf(_pos: &I, _elem: &E) -> Sha3Node { todo!() }
Sha3DigestLeaf(t) ==
    /\ pc[t] = "sha3_leaf"
    /\ result' = [result EXCEPT ![t] = Panic]
    /\ pc' = [pc EXCEPT ![t] = "panicked"]
    /\ UNCHANGED <<op, args, hasher, rng, x, y_flag, draws>>

\* The caller takes the outcome; the call's locals are dropped.
Return(t) ==
    /\ pc[t] \in {"done", "panicked"}
    /\ pc' = [pc EXCEPT ![t] = "idle"]
    /\ op' = [op EXCEPT ![t] = "none"]
    /\ args' = [args EXCEPT ![t] = NoArgs]
    /\ hasher' = [hasher EXCEPT ![t] = <<>>]
    /\ rng' = [rng EXCEPT ![t] = NoRng]
    /\ x' = [x EXCEPT ![t] = 0]
    /\ y_flag' = [y_flag EXCEPT ![t] = FALSE]
    /\ draws' = [draws EXCEPT ![t] = <<>>]
    /\ result' = [result EXCEPT ![t] = NoResult]

HashToGroupStep(t) ==
    \/ CallHashToGroup(t)
    \/ HasherUpdate(t)
    \/ SeedRng(t)
    \/ DrawX(t)
    \/ DrawFlag(t)
    \/ Recover(t)
    \/ Return(t)

DigestStep(t) ==
    \/ CallRescueDigest(t)
    \/ CallRescueDigestLeaf(t)
    \/ CallIntervalDigestLeaf(t)
    \/ RescueDigest(t)
    \/ RescueDigestLeaf(t)
    \/ IntervalDigestLeaf(t)
    \/ CallSha3Digest(t)
    \/ CallSha3DigestLeaf(t)
    \/ Sha3Update(t)
    \/ Sha3Finalize(t)
    \/ Sha3DigestLeaf(t)

Next == \E t \in Threads : HashToGroupStep(t) \/ DigestStep(t)

Spec == Init /\ [][Next]_vars

\* Only hash_to_group calls, every started call scheduled until it returns.
NextHashToGroup == \E t \in Threads : HashToGroupStep(t)

Running(t) ==
    HasherUpdate(t) \/ SeedRng(t) \/ DrawX(t) \/ DrawFlag(t) \/ Recover(t)

LiveSpec ==
    Init /\ [][NextHashToGroup]_vars /\ \A t \in Threads : WF_vars(Running(t))

\* ------------------------------------------- the calls as pure functions
\* The i-th candidate (i >= 1) of the stream of a seed.
CandidateX(seed, i) == BaseFieldRand([seed |-> seed, pos |-> 2 * (i - 1)])
CandidateFlag(seed, i) == GenBool([seed |-> seed, pos |-> 2 * (i - 1) + 1])
OnCurve(px) == GetPointFromX(px, FALSE).some

\* The first i in from..MaxIter whose candidate x is on the curve, else 0.
RECURSIVE FirstOnCurve(_, _)
FirstOnCurve(seed, from) ==
    IF from > MaxIter THEN 0
    ELSE IF OnCurve(CandidateX(seed, from)) THEN from
    ELSE FirstOnCurve(seed, from + 1)

SeedOf(a) == Sha256(a.cs_id \o a.data)

\* hash_to_group(data, cs_id) run alone, when it returns within MaxIter.
HashToGroupAlone(a) ==
    LET seed == SeedOf(a)
        k == FirstOnCurve(seed, 1)
    IN  Ok(MulByCofactor(
            GetPointFromX(CandidateX(seed, k), CandidateFlag(seed, k)).p))

\* Each operation run alone.
Alone(name, a) ==
    CASE name = "hash_to_group" -> HashToGroupAlone(a)
      [] name = "RescueHash::digest" -> Value(RescueDigestOf(a.children))
      [] name = "RescueHash::digest_leaf" ->
             Value(RescueDigestLeafOf(a.pos, a.elem[1]))
      [] name = "RescueHash::digest_leaf(Interval)" ->
             Value(IntervalDigestLeafOf(a.pos, a.elem))
      [] name = "Sha3Digest::digest" -> Value(Sha3_256(a.children))
      [] name = "Sha3Digest::digest_leaf" -> Panic
      [] OTHER -> NoResult

IsPrefix(a, b) == Len(a) <= Len(b) /\ \A i \in 1..Len(a) : a[i] = b[i]
Returned(t) == pc[t] = "done"
InHashToGroup(t) == op[t] = "hash_to_group"
Seeded(t) == InHashToGroup(t) /\ pc[t] \notin {"h2g_update", "h2g_seed"}

\* ------------------------------------------------------------- claims

\* C1: leaf/internal domain separation of RescueHash over a field element:
\* no value returned by digest_leaf(p, e) is also returned by digest on a
\* 3-element children vector.
C1_LeafInternalSeparation ==
    \A t1, t2 \in Threads :
        (/\ op[t1] = "RescueHash::digest_leaf" /\ Returned(t1)
         /\ op[t2] = "RescueHash::digest" /\ Returned(t2))
        => result[t1].value # result[t2].value

\* C2: leaf/internal domain separation of the Interval variant: no value
\* returned by digest_leaf(p, Interval(low, high)) is also returned by digest
\* on a 3-element children vector.
C2_IntervalLeafInternalSeparation ==
    \A t1, t2 \in Threads :
        (/\ op[t1] = "RescueHash::digest_leaf(Interval)" /\ Returned(t1)
         /\ op[t2] = "RescueHash::digest" /\ Returned(t2))
        => result[t1].value # result[t2].value

\* C4: seed separation: two calls of hash_to_group with distinct
\* (message, context) pairs never feed the same byte string into the seed
\* hash, and never seed their generators alike.
C4_SeedSeparation ==
    \A t1, t2 \in Threads :
        (/\ InHashToGroup(t1) /\ pc[t1] # "h2g_update"
         /\ InHashToGroup(t2) /\ pc[t2] # "h2g_update"
         /\ <<args[t1].data, args[t1].cs_id>>
                # <<args[t2].data, args[t2].cs_id>>)
        => /\ hasher[t1] # hasher[t2]
           /\ (Seeded(t1) /\ Seeded(t2)) => rng[t1].seed # rng[t2].seed

\* C5: backend failure signaling: a call of Sha3Digest::digest_leaf ends in
\* a panic and never returns a node (no default node either), while a call
\* of Sha3Digest::digest never panics and returns a node.
C5_BackendFailureSignaling ==
    \A t \in Threads :
        /\ op[t] = "Sha3Digest::digest_leaf" =>
               /\ pc[t] \in {"sha3_leaf", "panicked"}
               /\ result[t] = (IF pc[t] = "panicked" THEN Panic ELSE NoResult)
        /\ op[t] = "Sha3Digest::digest" =>
               /\ pc[t] \in {"sha3_update", "done"}
               /\ result[t].tag = (IF Returned(t) THEN "value" ELSE "none")

C5_Witness ==
    \E t1, t2 \in Threads :
        /\ op[t1] = "Sha3Digest::digest_leaf" /\ pc[t1] = "panicked"
        /\ op[t2] = "Sha3Digest::digest" /\ Returned(t2)

\* C6: the default hash_to_group has no failure path: a call never holds an
\* error or a panic, a call that returned holds Ok(point), and a call back
\* at the top of the loop after a failed recovery holds no result at all.
C6_NoFailurePath ==
    \A t \in Threads :
        InHashToGroup(t) =>
            /\ pc[t] # "panicked"
            /\ result[t].tag = (IF Returned(t) THEN "Ok" ELSE "none")
            /\ (pc[t] = "h2g_rand_x" /\ draws[t] # <<>>) =>
                   ~OnCurve(draws[t][Len(draws[t]) - 1].val)

C6_Witness ==
    \E t1, t2 \in Threads :
        /\ InHashToGroup(t1) /\ Returned(t1) /\ result[t1].tag = "Ok"
        /\ args[t1].data = <<>> /\ args[t1].cs_id = <<>>
        /\ InHashToGroup(t2) /\ Returned(t2) /\ result[t2].tag = "Ok"
        /\ Len(draws[t2]) >= 4

IsRescueLeaf(t) ==
    op[t] \in {"RescueHash::digest_leaf", "RescueHash::digest_leaf(Interval)"}

\* C7: index sensitivity of RescueHash::digest_leaf (both element types):
\* the leaf digests of one element at two distinct positions differ.
C7_IndexSensitivity ==
    \A t1, t2 \in Threads :
        (/\ IsRescueLeaf(t1) /\ Returned(t1)
         /\ IsRescueLeaf(t2) /\ Returned(t2)
         /\ op[t1] = op[t2]
         /\ args[t1].elem = args[t2].elem
         /\ args[t1].pos # args[t2].pos)
        => result[t1].value # result[t2].value

C7_Witness ==
    \E t1, t2 \in Threads :
        /\ op[t1] = "RescueHash::digest_leaf(Interval)" /\ Returned(t1)
        /\ op[t2] = op[t1] /\ Returned(t2)
        /\ args[t1].elem = args[t2].elem
        /\ args[t1].pos = 1
        /\ args[t2].pos = Pow2(PosBits) - 1

\* C3: determinism of hash_to_group: two invocations with the same
\* (message, context) seed their generators alike, sample the same sequence
\* of candidates, and return the identical group element.
C3_Determinism ==
    \A t1, t2 \in Threads :
        (/\ InHashToGroup(t1) /\ InHashToGroup(t2)
         /\ args[t1].data = args[t2].data
         /\ args[t1].cs_id = args[t2].cs_id)
        => /\ (Seeded(t1) /\ Seeded(t2)) => rng[t1].seed = rng[t2].seed
           /\ IsPrefix(draws[t1], draws[t2]) \/ IsPrefix(draws[t2], draws[t1])
           /\ (Returned(t1) /\ Returned(t2)) =>
                  /\ draws[t1] = draws[t2]
                  /\ result[t1] = result[t2]

C3_Witness ==
    \E t1, t2 \in Threads :
        /\ t1 # t2
        /\ InHashToGroup(t1) /\ Returned(t1)
        /\ InHashToGroup(t2) /\ Returned(t2)
        /\ args[t1] = args[t2]
        /\ args[t1].data # <<>>
        /\ Len(draws[t1]) >= 4

\* What one thread's call owns.
Locals(t) ==
    <<pc[t], op[t], args[t], hasher[t], rng[t], x[t], y_flag[t], draws[t],
      result[t]>>

\* C8: concurrent invocations do not interfere: with the steps of the calls
\* interleaved, every call that ended holds the outcome the operation has
\* when run alone, its generator is the one seeded from its own arguments,
\* and no step changes the locals of two calls.
C8_NoInterference ==
    /\ [](\A t \in Threads :
            /\ pc[t] \in {"done", "panicked"} =>
                   result[t] = Alone(op[t], args[t])
            /\ Seeded(t) => rng[t].seed = SeedOf(args[t]))
    /\ [][\A t1, t2 \in Threads :
            (t1 # t2 /\ Locals(t1)' # Locals(t1)) => Locals(t2)' = Locals(t2)
         ]_vars

C8_Witness ==
    \E t1, t2 \in Threads :
        /\ InHashToGroup(t1) /\ Returned(t1) /\ Len(draws[t1]) >= 4
        /\ InHashToGroup(t2) /\ pc[t2] = "h2g_gen_flag"
        /\ SeedOf(args[t1]) # SeedOf(args[t2])

\* The j-th draw of the stream of a seed: x, flag, x, flag, ...
StreamDraw(seed, j) ==
    IF j % 2 = 1 THEN DrawnX(CandidateX(seed, (j + 1) \div 2))
    ELSE DrawnFlag(CandidateFlag(seed, j \div 2))

\* C9: rejection-sampling order: the draws of a call are the stream of its
\* seed taken in order (x, then the sign bit, in every iteration); every
\* candidate before the current one was off the curve; and a call that
\* returned drew exactly up to the first candidate whose x is on the curve
\* and returns the cofactor multiple of the point recovered from it.
C9_SamplingOrder ==
    \A t \in Threads :
        InHashToGroup(t) =>
            LET seed == SeedOf(args[t])
                n == Len(draws[t])
                k == FirstOnCurve(seed, 1)
            IN  /\ \A j \in 1..n : draws[t][j] = StreamDraw(seed, j)
                /\ \A i \in 1..((n + 1) \div 2) :
                       (i < (n + 1) \div 2 \/ pc[t] = "h2g_rand_x")
                           => ~OnCurve(CandidateX(seed, i))
                /\ Returned(t) =>
                       /\ k # 0
                       /\ n = 2 * k
                       /\ result[t] =
                              Ok(ScalarMul(Cofactor,
                                     GetPointFromX(draws[t][n - 1].val,
                                                   draws[t][n].val = 1).p))

C9_Witness ==
    \E t1, t2 \in Threads :
        /\ InHashToGroup(t1) /\ Returned(t1) /\ Len(draws[t1]) = 2 * MaxIter
        /\ ~result[t1].point.inf
        /\ InHashToGroup(t2) /\ pc[t2] = "h2g_rand_x" /\ Len(draws[t2]) = 2

HasOnCurve(t) == Seeded(t) /\ FirstOnCurve(rng[t].seed, 1) # 0

\* C10: termination: a call whose stream yields an x on the curve (within
\* the iterations followed) eventually returns; the loop has no other exit,
\* so a call returns only on a candidate on the curve, and a call whose
\* stream yields none never returns.
C10_Termination ==
    /\ \A t \in Threads : HasOnCurve(t) ~> Returned(t)
    /\ [](\A t \in Threads :
            (InHashToGroup(t) /\ Returned(t)) => OnCurve(x[t]) /\ HasOnCurve(t))

C10_Witness ==
    \E t1, t2 \in Threads :
        /\ Seeded(t1) /\ ~HasOnCurve(t1)
        /\ pc[t1] = "h2g_rand_x" /\ rng[t1].pos = 2 * MaxIter
        /\ Seeded(t2) /\ HasOnCurve(t2) /\ Returned(t2)
        /\ Len(draws[t2]) >= 4

====
